---------------------------- MODULE Spec2Model ----------------------------
(***************************************************************************)
(* The multi-armed bandit notebook pytorch/3-SimpleBanditLearning.ipynb:   *)
(* the BanditEnv environment (constructor, _seed, _step, _reset) and the   *)
(* epsilon-greedy cell that keeps the tables scores / hits.                *)
(*                                                                         *)
(* Numbers.  Probabilities, epsilon and uniform draws are fractions with   *)
(* the common denominator UDen and are held as their numerators: a draw of *)
(* np.random.uniform() / np.random.rand() is w/UDen with w in 0..UDen-1    *)
(* (the half-open interval [0,1)), a probability p is k/UDen.  Rewards are *)
(* integers and the estimates in scores are exact rationals num/den in     *)
(* lowest terms; floating-point rounding is not modelled.                  *)
(*                                                                         *)
(* Random generators.  A generator (numpy's global one, or the RandomState *)
(* that seeding.np_random returns) is deterministic in its state: the      *)
(* state is the cyclic tape of raw outputs it is going to produce.         *)
(***************************************************************************)
EXTENDS Integers, Sequences, FiniteSets, TLC

VARIABLES
    env,         \* the BanditEnv object, or NoEnv before construction
    args,        \* the arguments the constructor was called with
    np_random,   \* env.np_random, the environment's own seeded generator
    global_rng,  \* the state of numpy's process-wide generator np.random
    result,      \* what the last env.step call did
    scores,      \* the estimate table, arm -> rational
    hits,        \* the pull-count table, arm -> integer
    epsilon,     \* numerator of epsilon
    log,         \* one entry per iteration of the epsilon-greedy cell
    twin         \* a second process running the same cells (reproducibility)

vars == <<env, args, np_random, global_rng, result, scores, hits, epsilon, log, twin>>

---------------------------------------------------------------------------
(* Bounds of the model: the denominator of the draws and probabilities, the  *)
(* length of a generator's tape, the most arms a constructor call is tried   *)
(* with, and the most iterations of the epsilon-greedy cell (and the most    *)
(* pulls compared between two runs).                                         *)

UDen == 3
TapeLen == 2
MaxArms == 2
MaxSteps == 3

---------------------------------------------------------------------------
(* Python helpers. *)

Range(s) == {s[i] : i \in DOMAIN s}

PyMin(s) == CHOOSE x \in Range(s) : \A y \in Range(s) : x <= y

PyMax(s) == CHOOSE x \in Range(s) : \A y \in Range(s) : x >= y

\* seq[i] of a Python list: 0-based, a negative index counts from the end.
Index(s, i) == IF i < 0 THEN s[Len(s) + i + 1] ELSE s[i + 1]

Max2(a, b) == IF a >= b THEN a ELSE b

\* A reward spec: a number, or the list [mean, std].
Num(v) == [list |-> FALSE, value |-> v, std |-> 0]

List(m, s) == [list |-> TRUE, value |-> m, std |-> s]

IsList(reward) == reward.list

---------------------------------------------------------------------------
(* Random generators. *)

Raw == 0 .. (UDen - 1)

Tapes == [1 .. TapeLen -> Raw]

\* The numerator of the next uniform draw in [0,1).
Uniform(g) == g[1]

\* The generator's state after one draw.
Advance(g) == [i \in 1 .. TapeLen |-> g[(i % TapeLen) + 1]]

\* np.random.normal(mean, std): mean + std * z, z the next standardised draw.
Normal(mean, std, g) == mean + std * (g[1] - (UDen \div 2))

Seeds == {0, 5}

\* seeding.np_random(seed): the generator a given integer seed produces.
SeedState(seed) == [i \in 1 .. TapeLen |-> (seed + i) % UDen]

---------------------------------------------------------------------------
(* BanditEnv.__init__ *)

NoEnv ==
    [status |-> "none", msg |-> "", p_dist |-> <<>>, r_dist |-> <<>>,
     n_bandits |-> 0, action_space |-> 0, observation_space |-> 0]

Raise(kind, text) == [NoEnv EXCEPT !.status = kind, !.msg = text]

\* Faulty variant: a standard deviation of 0 is let through.
BadStdLoose(reward) == IsList(reward) /\ reward.std < 0

BadStd(reward) == IsList(reward) /\ reward.std <= 0

BanditEnv_init(p_dist, r_dist) ==
    IF Len(p_dist) # Len(r_dist)
    THEN Raise("ValueError", "Probability and Reward distribution must be the same length")
    ELSE IF Len(p_dist) = 0
    THEN Raise("ValueError", "min() arg is an empty sequence")
    ELSE IF PyMin(p_dist) < 0 \/ PyMax(p_dist) > UDen
    THEN Raise("ValueError", "All probabilities must be between 0 and 1")
    ELSE IF \E i \in DOMAIN r_dist : BadStd(r_dist[i])
    THEN Raise("ValueError", "Standard deviation in rewards must all be greater than 0")
    ELSE [status |-> "ok", msg |-> "", p_dist |-> p_dist, r_dist |-> r_dist,
          n_bandits |-> Len(p_dist), action_space |-> Len(p_dist),
          observation_space |-> 1]

\* BanditEnv._seed(seed=None): with no seed (written as a negative number here)
\* one is taken from the OS entropy; the generator is built from the seed.
SeedChoices(seed) == IF seed < 0 THEN Seeds ELSE {seed}

BanditEnv_seed(seed) == {SeedState(s) : s \in SeedChoices(seed)}

---------------------------------------------------------------------------
(* BanditEnv._step and BanditEnv._reset *)

\* spaces.Discrete(n).contains(x) for an integer x.
\* Faulty variant: negative actions are let through.
ContainsNoLowerBound(n, x) == x < n

Contains(n, x) == x >= 0 /\ x < n

\* Faulty variant: u <= p, so a p = 0 arm pays on the draw 0.
PaysInclusive(u, p) == u <= p

\* Faulty variant: the comparison turned around.
PaysFlipped(u, p) == u >= p

\* np.random.uniform() < self.p_dist[action]
Pays(u, p) == u < p

\* One call of _step on environment e with numpy's global generator in state g:
\* what the call did, and the generator's state after it.
BanditEnv_step(e, g, action) ==
    LET u == Uniform(g)
        g1 == Advance(g)
        out(rw, gn) ==
            [called |-> TRUE, action |-> action, u |-> u, error |-> "",
             returned |-> TRUE, obs |-> 0, reward |-> rw, done |-> TRUE,
             info |-> {}, rng |-> gn]
    IN  IF ~Contains(e.action_space, action)
        THEN [called |-> TRUE, action |-> action, u |-> 0,
              error |-> "AssertionError", returned |-> FALSE, obs |-> 0,
              reward |-> 0, done |-> FALSE, info |-> {}, rng |-> g]
        ELSE IF Pays(u, Index(e.p_dist, action))
        THEN IF ~IsList(Index(e.r_dist, action))
             THEN out(Index(e.r_dist, action).value, g1)
             ELSE out(Normal(Index(e.r_dist, action).value,
                             Index(e.r_dist, action).std, g1), Advance(g1))
        ELSE out(0, g1)

BanditEnv_reset(e) == 0

\* The tuple a call returned, without the generator state.
Outcome(r) ==
    [called |-> r.called, action |-> r.action, u |-> r.u, error |-> r.error,
     returned |-> r.returned, obs |-> r.obs, reward |-> r.reward,
     done |-> r.done, info |-> r.info]

---------------------------------------------------------------------------
(* Exact rationals num/den, den > 0, in lowest terms. *)

Abs(x) == IF x < 0 THEN -x ELSE x

RECURSIVE GCD(_, _)
GCD(a, b) == IF b = 0 THEN a ELSE GCD(b, a % b)

Rat(n, d) == LET g == GCD(Abs(n), d) IN [num |-> n \div g, den |-> d \div g]

FromInt(x) == [num |-> x, den |-> 1]

RatLeq(a, b) == a.num * b.den <= b.num * a.den

RatLess(a, b) == a.num * b.den < b.num * a.den

---------------------------------------------------------------------------
(* The epsilon-greedy cell. *)

Arms(e) == 0 .. (e.n_bandits - 1)

\* np.zeros(n)
Zeros(e) == [a \in Arms(e) |-> FromInt(0)]

ZeroCounts(e) == [a \in Arms(e) |-> 0]

\* Faulty variant: the last index holding the maximum.
ArgmaxLast(t) ==
    CHOOSE a \in DOMAIN t :
        /\ \A b \in DOMAIN t : RatLeq(t[b], t[a])
        /\ \A b \in DOMAIN t : (b > a) => RatLess(t[b], t[a])

\* np.argmax(scores): the first index holding the maximum.
Argmax(t) ==
    CHOOSE a \in DOMAIN t :
        /\ \A b \in DOMAIN t : RatLeq(t[b], t[a])
        /\ \A b \in DOMAIN t : (b < a) => RatLess(t[b], t[a])

\* Faulty variant: the conventional reading, explore when u <= epsilon.
GreedyConventional(u, eps) == u > eps

\* np.random.rand() <= epsilon: the branch the cell calls greedy/exploitation.
Greedy(u, eps) == u <= eps

\* env.action_space.sample(): some member of Discrete(n).
Sample(e) == 0 .. (e.action_space - 1)

\* n = max(hits[action], 1)
Divisor(count) == Max2(count, 1)

\* Faulty variant: hits += 1, which counts the pull for every arm.
BumpAll(h, action) == [a \in DOMAIN h |-> h[a] + 1]

\* hits[action] += 1
Bump(h, action) == [h EXCEPT ![action] = @ + 1]

\* Faulty variant: Q + reward / n.
UpdateNoSubtract(Q, reward, n) == Rat(Q.num * n + reward * Q.den, Q.den * n)

\* Q_n1 = Q + (reward - Q) / n
Update(Q, reward, n) == Rat(Q.num * n + reward * Q.den - Q.num, Q.den * n)

---------------------------------------------------------------------------
(* Idle values of the variables a specification does not use. *)

NoArgs == [p |-> <<>>, r |-> <<>>]

NoRng == [i \in 1 .. TapeLen |-> 0]

NoResult ==
    [called |-> FALSE, action |-> 0, u |-> 0, error |-> "", returned |-> FALSE,
     obs |-> 0, reward |-> 0, done |-> FALSE, info |-> {}]

NoTwin ==
    [seeded |-> FALSE, np_random |-> NoRng, global_rng |-> NoRng,
     rewards |-> <<>>, mine |-> <<>>]

---------------------------------------------------------------------------
(* The notebook: an environment, direct pulls and the epsilon-greedy cell. *)

\* The environments the notebook defines (probabilities 0.8 / 0.2 are the
\* fractions next to 1 and 0), a Gaussian one, and the two-armed [10, 20] one.
Configs ==
    { [p |-> <<UDen, 0>>, r |-> <<Num(1), Num(1)>>],
      [p |-> <<UDen - 1, 1>>, r |-> <<Num(1), Num(1)>>],
      [p |-> <<UDen, UDen>>, r |-> <<Num(10), Num(20)>>],
      [p |-> <<UDen, UDen>>, r |-> <<List(0, 1), List(1, 1)>>] }

\* The exploration rate: the two ends of [0,1] and a fraction in between.
Epsilons == {0, 1, UDen}

Init ==
    /\ \E cfg \in Configs :
          /\ args = cfg
          /\ env = BanditEnv_init(cfg.p, cfg.r)
    /\ env.status = "ok"
    /\ np_random \in BanditEnv_seed(-1)
    /\ global_rng \in Tapes
    /\ result = NoResult
    /\ scores = Zeros(env)
    /\ hits = ZeroCounts(env)
    /\ epsilon \in Epsilons
    /\ log = <<>>
    /\ twin = NoTwin

\* env.seed(seed)
Seed(seed) ==
    /\ np_random' \in BanditEnv_seed(seed)
    /\ UNCHANGED <<env, args, global_rng, result, scores, hits, epsilon, log, twin>>

\* env.step(action) called directly from a cell.
Pull(action) ==
    LET r == BanditEnv_step(env, global_rng, action)
    IN  /\ result' = Outcome(r)
        /\ global_rng' = r.rng
        /\ UNCHANGED <<env, args, np_random, scores, hits, epsilon, log, twin>>

\* One iteration of the epsilon-greedy cell.
Iterate ==
    /\ Len(log) < MaxSteps
    /\ LET u == Uniform(global_rng)
           g1 == Advance(global_rng)
           greedy == Greedy(u, epsilon)
       IN  \E action \in (IF greedy THEN {Argmax(scores)} ELSE Sample(env)) :
             LET r == BanditEnv_step(env, g1, action)
             IN  /\ result' = Outcome(r)
                 /\ global_rng' = r.rng
                 /\ IF r.error # ""
                    THEN UNCHANGED <<scores, hits>>
                    ELSE /\ scores' = [scores EXCEPT ![action] =
                                          Update(@, r.reward, Divisor(hits[action]))]
                         /\ hits' = Bump(hits, action)
                 /\ log' = Append(log,
                        [u |-> u,
                         branch |-> IF greedy THEN "being greedy/exploitation"
                                              ELSE "exploring",
                         action |-> action, reward |-> r.reward,
                         error |-> r.error])
    /\ UNCHANGED <<env, args, np_random, epsilon, twin>>

Next ==
    \/ \E seed \in Seeds \cup {-1} : Seed(seed)
    \/ \E action \in -1 .. env.n_bandits : Pull(action)
    \/ Iterate

Spec == Init /\ [][Next]_vars

---------------------------------------------------------------------------
(* Properties of the environment's step. *)

ValidArm(a) == a \in 0 .. (env.n_bandits - 1)

\* C4: a pull with an action outside [0, n) ends in the invalid-action error
\* (the failed assertion), returns no reward and leaves p_dist and r_dist
\* unchanged; a pull with an action in [0, n) never ends in that error.
C4_InvalidAction ==
    /\ [](result.called =>
            IF ValidArm(result.action)
            THEN result.error = "" /\ result.returned
            ELSE result.error = "AssertionError" /\ ~result.returned)
    /\ [][env'.p_dist = env.p_dist /\ env'.r_dist = env.r_dist]_vars

\* A pull with action n, one past the last arm, ended in the failed assertion
\* and left p_dist as constructed.
C4_Witness ==
    /\ result.called
    /\ result.action = env.n_bandits
    /\ result.error = "AssertionError"
    /\ env.p_dist = args.p

\* C5: a pull of a valid arm with a fixed scalar reward returns observation 0,
\* done = true and empty info, and its reward is r_dist[a] when the uniform
\* draw u is below p_dist[a] and 0 otherwise; so the p = 1 arm of p=[1,0],
\* r=[1,1] always pays 1 and its p = 0 arm always pays 0.
C5_PullResult ==
    (result.called /\ ValidArm(result.action)
        /\ ~args.r[result.action + 1].list) =>
        /\ result.obs = 0
        /\ result.done = TRUE
        /\ result.info = {}
        /\ result.reward = IF result.u < args.p[result.action + 1]
                           THEN args.r[result.action + 1].value
                           ELSE 0
        /\ (args.p = <<UDen, 0>> /\ args.r = <<Num(1), Num(1)>>) =>
               result.reward = IF result.action = 0 THEN 1 ELSE 0

\* The p = 0 arm of the deterministic environment was pulled on the draw u = 0.
C5_Witness ==
    /\ args.p = <<UDen, 0>>
    /\ result.called
    /\ result.action = 1
    /\ result.u = 0
    /\ result.reward = 0
    /\ result.done

---------------------------------------------------------------------------
(* Properties of the epsilon-greedy cell. *)

Last(q) == q[Len(q)]

Stepped == Len(log') = Len(log) + 1

RECURSIVE RewardsFrom(_, _, _)
\* The rewards the cell observed for arm a, oldest first.
RewardsFrom(q, a, i) ==
    IF i > Len(q) THEN <<>>
    ELSE IF q[i].action = a /\ q[i].error = ""
         THEN <<q[i].reward>> \o RewardsFrom(q, a, i + 1)
         ELSE RewardsFrom(q, a, i + 1)

RewardsOf(a) == RewardsFrom(log, a, 1)

RECURSIVE Sum(_)
Sum(q) == IF q = <<>> THEN 0 ELSE Head(q) + Sum(Tail(q))

RECURSIVE SumCounts(_, _)
SumCounts(h, S) ==
    IF S = {} THEN 0
    ELSE LET a == CHOOSE x \in S : TRUE IN h[a] + SumCounts(h, S \ {a})

IsMax(t, a) == \A b \in DOMAIN t : t[b].num * t[a].den <= t[a].num * t[b].den

UniqueMax(t) == Cardinality({a \in DOMAIN t : IsMax(t, a)}) = 1

\* C1 (as stated): after k >= 1 updates of an arm with rewards r_1..r_k, from
\* estimate 0 and count 0, the arm's estimate is the mean (r_1 + ... + r_k) / k.
C1_IncrementalAverage ==
    \A a \in DOMAIN scores :
        LET h == RewardsOf(a)
        IN  Len(h) >= 1 => scores[a].num * Len(h) = Sum(h) * scores[a].den

\* C6: with epsilon = 1 and a table with a unique maximum, an iteration selects
\* the arm holding the maximum whatever the draw u, and never explores.
C6_AlwaysExploit ==
    [][(Stepped /\ epsilon = UDen /\ UniqueMax(scores)) =>
          /\ IsMax(scores, Last(log').action)
          /\ Last(log').branch = "being greedy/exploitation"]_vars

\* With epsilon = 1 the second iteration chose arm 1, the only maximum after
\* arm 0 had paid a negative reward, on the largest draw u there is.
C6_Witness ==
    /\ epsilon = UDen
    /\ Len(log) >= 2
    /\ log[1].action = 0 /\ log[1].reward < 0
    /\ log[2].action = 1
    /\ log[2].u = UDen - 1
    /\ log[2].branch = "being greedy/exploitation"

\* C7: on p_dist=[1,1], r_dist=[10,20] and a fresh table, an iteration with
\* action 0 and then one with action 1 give rewards [10, 20], estimates
\* {0: 10, 1: 20} and pull counts {0: 1, 1: 1}.
C7_EndToEnd ==
    (/\ args.p = <<UDen, UDen>>
     /\ args.r = <<Num(10), Num(20)>>
     /\ Len(log) = 2
     /\ log[1].action = 0
     /\ log[2].action = 1) =>
        /\ log[1].reward = 10
        /\ log[2].reward = 20
        /\ scores = (0 :> FromInt(10)) @@ (1 :> FromInt(20))
        /\ hits = (0 :> 1) @@ (1 :> 1)

\* The two iterations of the example ran: action 0, then action 1.
C7_Witness ==
    /\ args.r = <<Num(10), Num(20)>>
    /\ Len(log) = 2
    /\ log[1].action = 0
    /\ log[2].action = 1
    /\ hits[1] = 1

\* C8: the action of every iteration is an arm in [0, n); when u <= epsilon it
\* is the lowest index among the arms whose estimate is the maximum (arm 0 on
\* the all-zero table); so no iteration ends in the invalid-action error.
C8_ActionSelection ==
    [][Stepped =>
          LET e == Last(log')
          IN  /\ e.action \in 0 .. (env.n_bandits - 1)
              /\ e.error = ""
              /\ (e.u <= epsilon) =>
                    /\ IsMax(scores, e.action)
                    /\ \A b \in DOMAIN scores : IsMax(scores, b) => e.action <= b
                    /\ (\A b \in DOMAIN scores : scores[b].num = 0) => e.action = 0]_vars

\* A greedy iteration on the all-zero table chose arm 0, and an exploring
\* iteration then chose arm 1, which did not hold the maximum.
C8_Witness ==
    /\ Len(log) >= 2
    /\ log[1].u <= epsilon /\ log[1].action = 0 /\ log[1].reward > 0
    /\ log[2].u > epsilon /\ log[2].action = 1
    /\ log[2].error = ""

\* C9: an iteration changes only the chosen arm's entry (its count grows by
\* exactly 1, its estimate is replaced) and leaves every other arm's estimate
\* and count and the environment's p_dist and r_dist unchanged; so the counts
\* are non-negative, never decrease, sum to the number of iterations, and an
\* arm never chosen still has estimate 0 and count 0.
C9_Frame ==
    /\ [][/\ \A b \in DOMAIN hits : hits'[b] >= hits[b]
          /\ env'.p_dist = env.p_dist /\ env'.r_dist = env.r_dist
          /\ Stepped =>
                LET a == Last(log').action
                IN  /\ hits'[a] = hits[a] + 1
                    /\ \A b \in DOMAIN hits \ {a} :
                          hits'[b] = hits[b] /\ scores'[b] = scores[b]
          /\ ~Stepped => (hits' = hits /\ scores' = scores)]_vars
    /\ [](/\ \A a \in DOMAIN hits : hits[a] >= 0
          /\ SumCounts(hits, DOMAIN hits) = Len(log)
          /\ \A a \in DOMAIN hits :
                (\A i \in 1 .. Len(log) : log[i].action # a) =>
                    (hits[a] = 0 /\ scores[a] = FromInt(0)))

\* After three iterations one arm was chosen twice and the other once.
C9_Witness ==
    /\ Len(log) = 3
    /\ hits = (0 :> 2) @@ (1 :> 1)
    /\ scores[0] # FromInt(0)
    /\ log[2].action = 1

RECURSIVE MinOf(_)
MinOf(q) == IF Len(q) = 1 THEN q[1]
            ELSE LET m == MinOf(Tail(q)) IN IF q[1] <= m THEN q[1] ELSE m

RECURSIVE MaxOf(_)
MaxOf(q) == IF Len(q) = 1 THEN q[1]
            ELSE LET m == MaxOf(Tail(q)) IN IF q[1] >= m THEN q[1] ELSE m

\* C10: the estimate of every arm pulled at least once lies between the
\* minimum and the maximum of the rewards observed for that arm.
C10_EstimateWithinRewards ==
    \A a \in DOMAIN scores :
        LET h == RewardsOf(a)
        IN  Len(h) >= 1 =>
                /\ MinOf(h) * scores[a].den <= scores[a].num
                /\ scores[a].num <= MaxOf(h) * scores[a].den

\* An arm pulled three times holds an estimate strictly between the least
\* and the greatest reward it paid.
C10_Witness ==
    \E a \in DOMAIN scores :
        LET h == RewardsOf(a)
        IN  /\ Len(h) = 3
            /\ scores[a].den > 1
            /\ MinOf(h) * scores[a].den < scores[a].num
            /\ scores[a].num < MaxOf(h) * scores[a].den

---------------------------------------------------------------------------
(* Two runs of the same cells: each is a process of its own, with its own    *)
(* numpy generator and its own environment object built from the same        *)
(* parameters.  twin holds the second run's generators, and the rewards each *)
(* run has observed since both were seeded.                                  *)

InitRepro ==
    /\ \E cfg \in Configs :
          /\ args = cfg
          /\ env = BanditEnv_init(cfg.p, cfg.r)
    /\ env.status = "ok"
    /\ np_random \in BanditEnv_seed(-1)
    /\ global_rng \in Tapes
    /\ \E n \in BanditEnv_seed(-1), g \in Tapes :
          twin = [NoTwin EXCEPT !.np_random = n, !.global_rng = g]
    /\ result = NoResult
    /\ scores = Zeros(env)
    /\ hits = ZeroCounts(env)
    /\ epsilon = UDen
    /\ log = <<>>

\* env.seed(seed) in both runs, with the same seed.
SeedBoth(seed) ==
    /\ np_random' \in BanditEnv_seed(seed)
    /\ \E n \in BanditEnv_seed(seed) :
          twin' = [twin EXCEPT !.seeded = TRUE, !.np_random = n,
                               !.rewards = <<>>, !.mine = <<>>]
    /\ UNCHANGED <<env, args, global_rng, result, scores, hits, epsilon, log>>

\* The notebook's own seeding cell, env.seed=(5), in both runs: it rebinds the
\* attribute seed and calls nothing, so no generator changes.
AssignSeedBoth ==
    /\ twin' = [twin EXCEPT !.seeded = TRUE, !.rewards = <<>>, !.mine = <<>>]
    /\ UNCHANGED <<env, args, np_random, global_rng, result, scores, hits,
                   epsilon, log>>

\* env.step(action) in both runs, with the same action.
PullBoth(action) ==
    /\ twin.seeded
    /\ Len(twin.mine) < MaxSteps
    /\ LET r1 == BanditEnv_step(env, global_rng, action)
           r2 == BanditEnv_step(env, twin.global_rng, action)
       IN  /\ result' = Outcome(r1)
           /\ global_rng' = r1.rng
           /\ twin' = [twin EXCEPT !.global_rng = r2.rng,
                                   !.mine = Append(@, r1.reward),
                                   !.rewards = Append(@, r2.reward)]
    /\ UNCHANGED <<env, args, np_random, scores, hits, epsilon, log>>

NextRepro ==
    \/ \E seed \in Seeds : SeedBoth(seed)
    \/ AssignSeedBoth
    \/ \E action \in 0 .. (env.n_bandits - 1) : PullBoth(action)

SpecRepro == InitRepro /\ [][NextRepro]_vars

\* C2 (as stated): two runs that build the environment from the same
\* parameters, seed it with the same seed and apply the same pull actions
\* observe identical reward sequences.
C2_SeedReproducibility ==
    twin.seeded => twin.mine = twin.rewards

---------------------------------------------------------------------------
(* Construction on arbitrary arguments. *)

PValues == {-1, 0, 1, UDen, UDen + 1}

RSpecs == {Num(1), Num(0), List(0, 1), List(0, 0), List(1, -1)}

SeqsUpTo(S, n) == UNION {[1 .. k -> S] : k \in 0 .. n}

InitConstruct ==
    /\ env = NoEnv
    /\ args = NoArgs
    /\ np_random = NoRng
    /\ global_rng = NoRng
    /\ result = NoResult
    /\ scores = <<>>
    /\ hits = <<>>
    /\ epsilon = 0
    /\ log = <<>>
    /\ twin = NoTwin

New(p, r) ==
    /\ env.status = "none"
    /\ env' = BanditEnv_init(p, r)
    /\ args' = [p |-> p, r |-> r]
    /\ IF env'.status = "ok"
       THEN np_random' \in BanditEnv_seed(-1)
       ELSE np_random' = np_random
    /\ UNCHANGED <<global_rng, result, scores, hits, epsilon, log, twin>>

NextConstruct ==
    \E p \in SeqsUpTo(PValues, MaxArms), r \in SeqsUpTo(RSpecs, MaxArms) : New(p, r)

SpecConstruct == InitConstruct /\ [][NextConstruct]_vars

Constructed == env.status # "none"

LengthMismatch == Len(args.p) # Len(args.r)

ProbabilityOutOfRange == \E i \in DOMAIN args.p : args.p[i] < 0 \/ args.p[i] > UDen

NonPositiveStd == \E i \in DOMAIN args.r : args.r[i].list /\ args.r[i].std <= 0

Malformed == LengthMismatch \/ ProbabilityOutOfRange \/ NonPositiveStd

Holds(p, r) ==
    /\ env.status = "ok"
    /\ env.n_bandits = Len(p)
    /\ env.p_dist = p
    /\ env.r_dist = r

\* C3 (as stated): construction fails with the configuration error (ValueError)
\* whenever the lengths differ, a probability is outside [0,1] or a [mean, std]
\* spec has std <= 0, and for every other input it succeeds and yields an
\* environment of len(p_dist) arms holding exactly the given p_dist and r_dist.
C3_AsStated ==
    Constructed =>
        IF Malformed THEN env.status = "ValueError" ELSE Holds(args.p, args.r)

\* C3 (amended): as above, except that construction also fails with ValueError
\* when p_dist and r_dist are both empty (min() of an empty sequence); every
\* other input, which has at least one arm, succeeds and yields an environment
\* of len(p_dist) >= 1 arms holding exactly the given p_dist and r_dist.
C3_ConstructionValidation ==
    Constructed =>
        IF Malformed \/ Len(args.p) = 0
        THEN env.status = "ValueError"
        ELSE Holds(args.p, args.r) /\ env.n_bandits >= 1

\* An environment with the most arms tried was built from valid arguments,
\* among them a [mean, std] spec with std > 0 and a probability of 1.
C3_Witness ==
    /\ env.status = "ok"
    /\ env.n_bandits = MaxArms
    /\ \E i \in DOMAIN args.r : args.r[i].list /\ args.r[i].std > 0
    /\ \E i \in DOMAIN args.p : args.p[i] = UDen

=============================================================================
